---- MODULE Spec2Model ----
(***************************************************************************)
(* Model of src/script.js: the page interaction controller installed on    *)
(* DOMContentLoaded.  Three groups of listeners share one page:            *)
(*   - the theme toggle (click on #theme-toggle),                          *)
(*   - the FAQ accordion (click on each .faq-question),                    *)
(*   - the contact form (submit on #contact-form, keyup on its 4 inputs).  *)
(* Input values are sequences of one-character strings, so that trim, the  *)
(* length rules and the e-mail pattern are computed character by           *)
(* character.  Displayed texts (labels, messages) are TLA+ strings.        *)
(***************************************************************************)
EXTENDS Integers, Sequences, FiniteSets, TLC

(***************************************************************************)
(* Bounds of the model.                                                    *)
(***************************************************************************)
\* most whitespace characters put around a typed value
MaxPad == 2
\* number of .faq-question elements on the page
NumFaq == 2
\* clicks counted per FAQ question before the counter stops the model
MaxClicks == 3

(***************************************************************************)
(* Program constants.                                                      *)
(***************************************************************************)
\* script.js:87  nameInput.value.trim().length < 3
MinNameLen == 3
\* script.js:100 passwordInput.value.length < 8
MinPasswordLen == 8

NameErrorText == "Name must be at least 3 characters long."
EmailErrorText == "Please enter a valid email address."
PasswordErrorText == "Password must be at least 8 characters."
ConfirmErrorText == "Passwords do not match."
\* script.js:122; the literal ends with an emoji, left out here
SuccessText == "Form submitted successfully!"
LightLabel == "Switch to Light Mode"
DarkLabel == "Switch to Dark Mode"

\* the ids of the four validated inputs
Fields == {"name", "email", "password", "confirm-password"}

\* the message validateForm passes to displayError for each input
ErrorTextOf(f) ==
    CASE f = "name" -> NameErrorText
      [] f = "email" -> EmailErrorText
      [] f = "password" -> PasswordErrorText
      [] f = "confirm-password" -> ConfirmErrorText

(***************************************************************************)
(* Strings as character sequences.                                         *)
(***************************************************************************)
Rep(c, n) == [i \in 1..n |-> c]
Letters(n) == Rep("a", n)
Spaces(n) == Rep(" ", n)

\* \s of the pattern and the characters String.prototype.trim strips
Whitespace == {" ", "\t", "\n"}

RECURSIVE trimStart(_)
trimStart(s) ==
    IF s # <<>> /\ Head(s) \in Whitespace THEN trimStart(Tail(s)) ELSE s

RECURSIVE trimEnd(_)
trimEnd(s) ==
    IF s # <<>> /\ s[Len(s)] \in Whitespace
    THEN trimEnd(SubSeq(s, 1, Len(s) - 1))
    ELSE s

\* String.prototype.trim
trim(s) == trimEnd(trimStart(s))

\* [^\s@]+ : a non-empty run of characters that are neither whitespace nor @
PlainRun(s) ==
    /\ s # <<>>
    /\ \A i \in 1..Len(s) : s[i] \notin Whitespace /\ s[i] # "@"

\* /^[^\s@]+@[^\s@]+\.[^\s@]+$/.test(s)
emailRegexTest(s) ==
    \E i \in 1..Len(s) : \E j \in 1..Len(s) :
        /\ i < j
        /\ s[i] = "@"
        /\ s[j] = "."
        /\ PlainRun(SubSeq(s, 1, i - 1))
        /\ PlainRun(SubSeq(s, i + 1, j - 1))
        /\ PlainRun(SubSeq(s, j + 1, Len(s)))

(***************************************************************************)
(* What the user can type into each input.                                 *)
(***************************************************************************)
Pads == {<<0, 0>>, <<1, MaxPad>>}

NameValues ==
    { Spaces(p[1]) \o Letters(n) \o Spaces(p[2]) :
        n \in {0, MinNameLen - 1, MinNameLen}, p \in Pads }

Address == <<"a", "@", "b", ".", "c">>

EmailValues ==
    { <<>>,
      Address,
      Spaces(1) \o Address \o Spaces(MaxPad),
      <<"a", "@", "b">>,
      <<"a", " ", "a", "@", "b", ".", "c">>,
      <<"a", "@", "b", "@", "c", ".", "d">> }

\* raw lengths 0, MinPasswordLen - 1 and MinPasswordLen, with and without
\* trailing whitespace
PasswordValues ==
    { Letters(n) : n \in {0, MinPasswordLen - 1, MinPasswordLen} }
    \cup { Letters(n - MaxPad) \o Spaces(MaxPad) :
             n \in {MinPasswordLen - 1, MinPasswordLen} }

ConfirmValues ==
    { <<>>, Letters(MinPasswordLen),
      Letters(MinPasswordLen - MaxPad) \o Spaces(MaxPad) }

Typed(f) ==
    CASE f = "name" -> NameValues
      [] f = "email" -> EmailValues
      [] f = "password" -> PasswordValues
      [] f = "confirm-password" -> ConfirmValues

\* the labels the page's markup may give the theme button
InitialLabels == {DarkLabel, "Toggle Theme"}

FaqIds == 1..NumFaq

(***************************************************************************)
(* State.                                                                  *)
(***************************************************************************)
VARIABLES
    value,            \* value of each input
    errorText,        \* textContent of each <id>-error span
    invalid,          \* 'invalid' in each input's classList
    successMessage,   \* textContent of #form-success-message
    submitted,        \* the browser carried out a native form submission
    darkMode,         \* 'dark-mode' in body.classList
    label,            \* textContent of #theme-toggle
    themeLog,         \* <<darkMode, label>> before each of the last two clicks
    show,             \* 'show' in the classList of each question's answer
    active,           \* 'active' in each question's classList
    clicks,           \* clicks received by each question
    ev,               \* the last event dispatched
    shownBefore,      \* errorText as it was when the last form event began
    followsAccepted   \* the last form event came right after an accepted submit

formVars == <<value, errorText, invalid, successMessage, submitted>>
themeVars == <<darkMode, label, themeLog>>
faqVars == <<show, active, clicks>>
vars == <<formVars, themeVars, faqVars, ev, shownBefore, followsAccepted>>

Init ==
    /\ value = [f \in Fields |-> <<>>]
    /\ errorText = [f \in Fields |-> ""]
    /\ invalid = [f \in Fields |-> FALSE]
    /\ successMessage = ""
    /\ submitted = FALSE
    /\ darkMode = FALSE
    /\ label \in InitialLabels
    /\ themeLog = <<>>
    /\ show = [q \in FaqIds |-> FALSE]
    /\ active = [q \in FaqIds |-> FALSE]
    /\ clicks = [q \in FaqIds |-> 0]
    /\ ev = [type |-> "load", target |-> "document"]
    /\ shownBefore = [f \in Fields |-> ""]
    /\ followsAccepted = FALSE

\* the last event was a submit that was accepted: the success text is on
\* display and nothing has happened since
JustAccepted == ev.type = "submit" /\ successMessage = SuccessText

(***************************************************************************)
(* The form's part of the document, as a value the helpers transform.      *)
(***************************************************************************)
Dom ==
    [value |-> value, errorText |-> errorText, invalid |-> invalid,
     successMessage |-> successMessage]

Render(d) ==
    /\ value' = d.value
    /\ errorText' = d.errorText
    /\ invalid' = d.invalid
    /\ successMessage' = d.successMessage

\* displayError(inputElement, errorMessage)
displayError(d, f, msg) ==
    [d EXCEPT !.errorText[f] = msg, !.invalid[f] = TRUE]

\* clearError without the classList.remove('invalid') line
clearErrorTextOnly(d, f) == [d EXCEPT !.errorText[f] = ""]

\* clearError(inputElement)
clearError(d, f) ==
    [d EXCEPT !.errorText[f] = "", !.invalid[f] = FALSE]

\* the name condition without the trim() call
nameFailsUntrimmed(d) == Len(d.value["name"]) < MinNameLen

\* the confirm-password condition also rejecting an empty confirmation
confirmFailsOnEmpty(d) ==
    \/ d.value["confirm-password"] = <<>>
    \/ d.value["confirm-password"] # d.value["password"]

\* the four conditions under which validateForm displays an error
nameFails(d) == Len(trim(d.value["name"])) < MinNameLen
emailFails(d) == ~emailRegexTest(trim(d.value["email"]))
passwordFails(d) == Len(d.value["password"]) < MinPasswordLen
confirmFails(d) == d.value["confirm-password"] # d.value["password"]

\* a pass that clears the texts only and marks a failing field with
\* classList.toggle('invalid')
validateFormTogglesMarker(d) ==
    LET c == [d EXCEPT !.errorText = [f \in Fields |-> ""],
                       !.successMessage = ""]
        fails == [f \in Fields |->
                    CASE f = "name" -> nameFails(c)
                      [] f = "email" -> emailFails(c)
                      [] f = "password" -> passwordFails(c)
                      [] f = "confirm-password" -> confirmFails(c)]
    IN  [dom |-> [c EXCEPT
                    !.errorText = [f \in Fields |->
                                     IF fails[f] THEN ErrorTextOf(f) ELSE ""],
                    !.invalid = [f \in Fields |->
                                   IF fails[f] THEN ~c.invalid[f]
                                   ELSE c.invalid[f]]],
         isValid |-> \A f \in Fields : ~fails[f]]

\* validateForm returning at the first rule that fails
validateFormShortCircuit(d) ==
    LET c1 == clearError(d, "name")
        c2 == clearError(c1, "email")
        c3 == clearError(c2, "password")
        c4 == clearError(c3, "confirm-password")
        c5 == [c4 EXCEPT !.successMessage = ""]
    IN  IF nameFails(c5)
        THEN [dom |-> displayError(c5, "name", NameErrorText), isValid |-> FALSE]
        ELSE IF emailFails(c5)
        THEN [dom |-> displayError(c5, "email", EmailErrorText), isValid |-> FALSE]
        ELSE IF passwordFails(c5)
        THEN [dom |-> displayError(c5, "password", PasswordErrorText),
              isValid |-> FALSE]
        ELSE IF confirmFails(c5)
        THEN [dom |-> displayError(c5, "confirm-password", ConfirmErrorText),
              isValid |-> FALSE]
        ELSE [dom |-> c5, isValid |-> TRUE]

\* validateForm(): the document it leaves and the value it returns
validateForm(d) ==
    LET c1 == clearError(d, "name")
        c2 == clearError(c1, "email")
        c3 == clearError(c2, "password")
        c4 == clearError(c3, "confirm-password")
        c5 == [c4 EXCEPT !.successMessage = ""]
        v0 == TRUE
        d1 == IF nameFails(c5)
              THEN displayError(c5, "name", ErrorTextOf("name")) ELSE c5
        v1 == IF nameFails(c5) THEN FALSE ELSE v0
        d2 == IF emailFails(d1)
              THEN displayError(d1, "email", ErrorTextOf("email")) ELSE d1
        v2 == IF emailFails(d1) THEN FALSE ELSE v1
        d3 == IF passwordFails(d2)
              THEN displayError(d2, "password", ErrorTextOf("password")) ELSE d2
        v3 == IF passwordFails(d2) THEN FALSE ELSE v2
        d4 == IF confirmFails(d3)
              THEN displayError(d3, "confirm-password",
                                ErrorTextOf("confirm-password"))
              ELSE d3
        v4 == IF confirmFails(d3) THEN FALSE ELSE v3
    IN  [dom |-> d4, isValid |-> v4]

\* a reset that forgets the two password inputs
formResetTextInputsOnly(d) ==
    [d EXCEPT !.value["name"] = <<>>, !.value["email"] = <<>>]

\* form.reset(): every input back to its default value; the inputs of the
\* contact form carry no value attribute, so the default is the empty string
formReset(d) == [d EXCEPT !.value = [f \in Fields |-> <<>>]]

\* the listener without its e.preventDefault() line
preventDefaultOmitted(e) == e

\* e.preventDefault() on a fresh, cancelable submit event
preventDefault(e) == [e EXCEPT !.defaultPrevented = TRUE]

\* a submit listener that calls form.reset() after the if, on both branches
submitListenerAlwaysResets(d, e) ==
    LET e1 == preventDefault(e)
        r == validateForm(d)
    IN  [event |-> e1,
         dom |-> formReset([r.dom EXCEPT !.successMessage =
                               IF r.isValid THEN SuccessText ELSE ""])]

\* the submit listener of #contact-form
submitListener(d, e) ==
    LET e1 == preventDefault(e)
        r == validateForm(d)
    IN  [event |-> e1,
         dom |-> IF r.isValid
                 THEN formReset([r.dom EXCEPT !.successMessage = SuccessText])
                 ELSE [r.dom EXCEPT !.successMessage = ""]]

\* a submit event is dispatched on the form; the browser submits natively
\* afterwards unless the listener cancelled the event
Submit ==
    LET r == submitListener(Dom, [defaultPrevented |-> FALSE])
    IN  /\ Render(r.dom)
        /\ submitted' = (submitted \/ ~r.event.defaultPrevented)
        /\ ev' = [type |-> "submit", target |-> "contact-form"]
        /\ shownBefore' = errorText
        /\ followsAccepted' = JustAccepted
        /\ UNCHANGED <<themeVars, faqVars>>

\* keyup conditions whose name check leaves out the trim() call
keyupPassesRawName(d, f) ==
    CASE f = "name" -> Len(d.value["name"]) >= MinNameLen
      [] f = "email" -> emailRegexTest(trim(d.value["email"]))
      [] f = "password" -> Len(d.value["password"]) >= MinPasswordLen
      [] f = "confirm-password" ->
            d.value["confirm-password"] = d.value["password"]

\* keyup conditions whose password check trims the value first
keyupPassesTrimmedPassword(d, f) ==
    CASE f = "name" -> Len(trim(d.value["name"])) >= MinNameLen
      [] f = "email" -> emailRegexTest(trim(d.value["email"]))
      [] f = "password" -> Len(trim(d.value["password"])) >= MinPasswordLen
      [] f = "confirm-password" ->
            d.value["confirm-password"] = d.value["password"]

\* keyup conditions whose confirm-password check compares lengths only
keyupPassesConfirmByLength(d, f) ==
    CASE f = "name" -> Len(trim(d.value["name"])) >= MinNameLen
      [] f = "email" -> emailRegexTest(trim(d.value["email"]))
      [] f = "password" -> Len(d.value["password"]) >= MinPasswordLen
      [] f = "confirm-password" ->
            Len(d.value["confirm-password"]) = Len(d.value["password"])

\* the condition under which each keyup listener clears its field's error
keyupPasses(d, f) ==
    CASE f = "name" -> Len(trim(d.value["name"])) >= MinNameLen
      [] f = "email" -> emailRegexTest(trim(d.value["email"]))
      [] f = "password" -> Len(d.value["password"]) >= MinPasswordLen
      [] f = "confirm-password" ->
            d.value["confirm-password"] = d.value["password"]

\* a keyup listener that also empties the success message when it clears
keyupListenerClearsSuccess(d, f) ==
    IF keyupPasses(d, f)
    THEN [clearError(d, f) EXCEPT !.successMessage = ""]
    ELSE d

\* a keyup listener that also writes the error when the check fails
keyupListenerShowsError(d, f) ==
    IF keyupPasses(d, f) THEN clearError(d, f)
    ELSE displayError(d, f, ErrorTextOf(f))

\* a keyup listener that runs the whole validation pass
keyupListenerRevalidates(d, f) == validateForm(d).dom

\* the keyup listener of input f
keyupListener(d, f) == IF keyupPasses(d, f) THEN clearError(d, f) ELSE d

Keyup(f) ==
    /\ Render(keyupListener(Dom, f))
    /\ ev' = [type |-> "keyup", target |-> f]
    /\ shownBefore' = errorText
    /\ followsAccepted' = JustAccepted
    /\ UNCHANGED <<submitted, themeVars, faqVars>>

\* the user changes the content of input f; no listener is attached to this
Input(f, v) ==
    /\ value[f] # v
    /\ value' = [value EXCEPT ![f] = v]
    /\ ev' = [type |-> "input", target |-> f]
    /\ shownBefore' = errorText
    /\ followsAccepted' = JustAccepted
    /\ UNCHANGED <<errorText, invalid, successMessage, submitted,
                   themeVars, faqVars>>

(***************************************************************************)
(* Theme toggle.                                                           *)
(***************************************************************************)
\* a click listener using classList.add in place of classList.toggle
themeToggleAddOnly(t) == <<TRUE, LightLabel>>

\* a click listener whose two label assignments are exchanged
themeToggleLabelsSwapped(t) ==
    LET dark == ~t[1]
    IN  <<dark, IF dark THEN DarkLabel ELSE LightLabel>>

\* the click listener of #theme-toggle, on <<dark-mode marker, label>>
themeToggle(t) ==
    LET dark == ~t[1]
    IN  <<dark, IF dark THEN LightLabel ELSE DarkLabel>>

ThemeClick ==
    LET t == themeToggle(<<darkMode, label>>)
    IN  /\ darkMode' = t[1]
        /\ label' = t[2]
        /\ themeLog' = IF Len(themeLog) < 2
                       THEN Append(themeLog, <<darkMode, label>>)
                       ELSE <<themeLog[2], <<darkMode, label>>>>
        /\ ev' = [type |-> "click", target |-> "theme-toggle"]
        /\ UNCHANGED <<formVars, faqVars, shownBefore, followsAccepted>>

(***************************************************************************)
(* FAQ accordion.                                                          *)
(***************************************************************************)
\* a click listener that first closes every other pair (exclusive accordion)
faqToggleExclusive(m, q) ==
    <<[p \in FaqIds |-> IF p = q THEN ~m[1][q] ELSE FALSE],
      [p \in FaqIds |-> IF p = q THEN ~m[2][q] ELSE FALSE]>>

\* a click listener that opens the answer with classList.add
faqToggleAddsShow(m, q) ==
    <<[m[1] EXCEPT ![q] = TRUE], [m[2] EXCEPT ![q] = ~m[2][q]]>>

\* the click listener of question q, on <<show, active>>
faqToggle(m, q) ==
    <<[m[1] EXCEPT ![q] = ~m[1][q]], [m[2] EXCEPT ![q] = ~m[2][q]]>>

FaqClick(q) ==
    LET m == faqToggle(<<show, active>>, q)
    IN  /\ clicks[q] < MaxClicks
        /\ show' = m[1]
        /\ active' = m[2]
        /\ clicks' = [clicks EXCEPT ![q] = clicks[q] + 1]
        /\ ev' = [type |-> "click", target |-> "faq-question"]
        /\ UNCHANGED <<formVars, themeVars, shownBefore, followsAccepted>>

(***************************************************************************)
(* Specifications.  The form's listeners touch only the form's part of the *)
(* page, the theme and FAQ listeners only theirs; SpecForm and SpecPage    *)
(* run each part's events, Spec all of them.                               *)
(***************************************************************************)
NextForm ==
    \/ Submit
    \/ \E f \in Fields : Keyup(f)
    \/ \E f \in Fields : \E v \in Typed(f) : Input(f, v)

NextPage ==
    \/ ThemeClick
    \/ \E q \in FaqIds : FaqClick(q)

Next == NextForm \/ NextPage

SpecForm == Init /\ [][NextForm]_vars
SpecPage == Init /\ [][NextPage]_vars
Spec == Init /\ [][Next]_vars

(***************************************************************************)
(* Properties.                                                             *)
(***************************************************************************)
\* the rule of each field as the specification's table states it
RuleHolds(f, vals) ==
    CASE f = "name" -> Len(trim(vals["name"])) >= 3
      [] f = "email" -> emailRegexTest(trim(vals["email"]))
      [] f = "password" -> Len(vals["password"]) >= 8
      [] f = "confirm-password" -> vals["confirm-password"] = vals["password"]

AllRulesHold(vals) == \A f \in Fields : RuleHolds(f, vals)
NoErrorShown(f) == errorText[f] = "" /\ ~invalid[f]
EmptyValues == [f \in Fields |-> <<>>]
IsSubmit(e) == e.type = "submit"
IsKeyup(e) == e.type = "keyup"

\* C1: in every reachable state each of the four fields has a non-empty
\* error message if and only if its input carries the 'invalid' marker.
C1_ErrorIffInvalid ==
    \A f \in Fields : (errorText[f] # "") <=> invalid[f]

\* a failed submit left an error on one field and none on another
C1_Witness ==
    /\ IsSubmit(ev)
    /\ errorText["name"] # "" /\ invalid["name"]
    /\ errorText["email"] = "" /\ ~invalid["email"]

\* C2: from every reachable document (any input values, any errors and
\* success message displayed before) validateForm leaves the success message
\* empty, shows on each field exactly its own error text and the marker if
\* its rule fails and nothing if it passes, and returns true exactly when
\* all four rules pass.
C2_ValidationPass ==
    LET r == validateForm(Dom)
    IN  /\ r.dom.successMessage = ""
        /\ \A f \in Fields :
              IF RuleHolds(f, value)
              THEN r.dom.errorText[f] = "" /\ ~r.dom.invalid[f]
              ELSE r.dom.errorText[f] = ErrorTextOf(f) /\ r.dom.invalid[f]
        /\ r.isValid = AllRulesHold(value)

\* a pass has run on a form that showed a name error before: it cleared that
\* one and set the e-mail and confirm-password errors, skipping no rule
C2_Witness ==
    /\ IsSubmit(ev)
    /\ shownBefore["name"] # ""
    /\ errorText["name"] = ""
    /\ errorText["email"] = EmailErrorText
    /\ errorText["password"] = ""
    /\ errorText["confirm-password"] = ConfirmErrorText

\* C3: a submit event dispatched while all four rules pass leaves the
\* success text displayed, all four values empty and no field with an error
\* or marker.
C3_SubmitAccepted ==
    [][(IsSubmit(ev') /\ AllRulesHold(value)) =>
          /\ successMessage' = SuccessText
          /\ SuccessText # ""
          /\ value' = EmptyValues
          /\ \A f \in Fields : errorText'[f] = "" /\ ~invalid'[f]]_vars

\* an accepted submit on a form that still showed an error from an earlier
\* failed one
C3_Witness ==
    /\ IsSubmit(ev)
    /\ successMessage = SuccessText
    /\ value = EmptyValues
    /\ \E f \in Fields : shownBefore[f] # ""
    /\ \A f \in Fields : NoErrorShown(f)

\* C4: a submit event dispatched while at least one rule fails leaves the
\* success message empty, an error on exactly the failing fields, and the
\* four input values as they were.
C4_SubmitBlocked ==
    [][(IsSubmit(ev') /\ ~AllRulesHold(value)) =>
          /\ successMessage' = ""
          /\ \A f \in Fields : (errorText'[f] # "") <=> ~RuleHolds(f, value)
          /\ value' = value]_vars

\* the blocked submission of the scenario: only the name is too short
C4_Witness ==
    /\ IsSubmit(ev)
    /\ value["name"] = Letters(2)
    /\ value["email"] = Address
    /\ value["password"] = Letters(8)
    /\ value["confirm-password"] = Letters(8)
    /\ errorText["name"] = NameErrorText
    /\ \A f \in Fields \ {"name"} : NoErrorShown(f)
    /\ successMessage = ""

\* C5: no sequence of events leads to a native submission of the form:
\* every submit event is cancelled, whether the pass succeeds or fails.
C5_NoNativeSubmission == ~submitted

\* a submit event whose validation pass failed, and no native submission
C5_Witness ==
    /\ IsSubmit(ev)
    /\ errorText["password"] = PasswordErrorText
    /\ ~submitted

\* C6: a keyup in field f re-evaluates only f's rule on the current values:
\* if it passes, f's error becomes empty and its marker is removed; if it
\* fails, f's error and marker stay exactly as they were.  So a keyup never
\* sets an error, and an error appears only in a step that is a submit.
C6_KeyupOnlyClears ==
    [][/\ \A f \in Fields :
             (IsKeyup(ev') /\ ev'.target = f) =>
                 /\ IF RuleHolds(f, value)
                    THEN errorText'[f] = "" /\ ~invalid'[f]
                    ELSE errorText'[f] = errorText[f] /\ invalid'[f] = invalid[f]
                 /\ errorText[f] = "" => errorText'[f] = ""
       /\ (\E f \in Fields : errorText[f] = "" /\ errorText'[f] # "")
             => IsSubmit(ev')]_vars

\* a keyup in the name field while the name is still too short: the error
\* of the last pass is still displayed
C6_Witness ==
    /\ IsKeyup(ev) /\ ev.target = "name"
    /\ ~RuleHolds("name", value)
    /\ shownBefore["name"] = NameErrorText
    /\ errorText["name"] = NameErrorText /\ invalid["name"]

\* C7: a keyup in field f leaves unchanged the errors and markers of the
\* other three fields, all four input values and the success message; so a
\* keyup in the password field never changes the confirm-password display.
C7_KeyupFrame ==
    [][IsKeyup(ev') =>
          /\ \A g \in Fields \ {ev'.target} :
                errorText'[g] = errorText[g] /\ invalid'[g] = invalid[g]
          /\ value' = value
          /\ successMessage' = successMessage]_vars

\* a keyup in the password field after an edit that made the two passwords
\* equal: the confirm-password error is still displayed
C7_Witness ==
    /\ IsKeyup(ev) /\ ev.target = "password"
    /\ value["password"] = value["confirm-password"]
    /\ shownBefore["confirm-password"] = ConfirmErrorText
    /\ errorText["confirm-password"] = ConfirmErrorText
    /\ invalid["confirm-password"]

\* C8 as stated: after any keyup event no field whose content satisfies its
\* rule still shows an error.
C8_AsStated ==
    IsKeyup(ev) =>
        \A g \in Fields : RuleHolds(g, value) => NoErrorShown(g)

\* C8 as amended: every validation pass clears the error and marker of each
\* field whose rule holds (after a submit, errors are shown on failing
\* fields only), and a keyup in field f clears the error and marker of f
\* itself once f's content satisfies its rule (for confirm-password:
\* equality with the password's current value); the other fields' errors
\* stay until their own keyup or the next pass.
C8_ClearedByOwnKeyupOrPass ==
    /\ IsKeyup(ev) => (RuleHolds(ev.target, value) => NoErrorShown(ev.target))
    /\ IsSubmit(ev) =>
          \A g \in Fields : RuleHolds(g, value) => NoErrorShown(g)

\* a keyup in the password field whose content (trailing spaces counted) has
\* become long enough cleared the error that was displayed
C8_Witness ==
    /\ IsKeyup(ev) /\ ev.target = "password"
    /\ value["password"] = Letters(6) \o Spaces(2)
    /\ shownBefore["password"] = PasswordErrorText
    /\ NoErrorShown("password")

\* C9: a keyup in confirm-password while 'Passwords do not match.' is
\* displayed clears that error exactly when confirm-password equals the
\* password field's value at the time of the keyup; no validation pass runs:
\* no other field's error or marker changes, and neither do the values or
\* the success message.
C9_ConfirmUsesLivePassword ==
    [][(/\ IsKeyup(ev') /\ ev'.target = "confirm-password"
        /\ errorText["confirm-password"] = ConfirmErrorText) =>
          /\ (errorText'["confirm-password"] = "")
                <=> (value["confirm-password"] = value["password"])
          /\ (errorText'["confirm-password"] = "")
                <=> ~invalid'["confirm-password"]
          /\ errorText'["confirm-password"] \in {"", ConfirmErrorText}
          /\ \A g \in Fields \ {"confirm-password"} :
                errorText'[g] = errorText[g] /\ invalid'[g] = invalid[g]
          /\ value' = value
          /\ successMessage' = successMessage]_vars

\* the last pass left the password and confirm-password errors (the password
\* was too short then); the password has since been edited to a valid one
\* equal to confirm-password, and a keyup in confirm-password cleared the
\* confirm-password error alone: the password error is still displayed
C9_Witness ==
    /\ IsKeyup(ev) /\ ev.target = "confirm-password"
    /\ shownBefore["confirm-password"] = ConfirmErrorText
    /\ errorText["password"] = PasswordErrorText
    /\ value["password"] = Letters(8)
    /\ value["confirm-password"] = value["password"]
    /\ NoErrorShown("confirm-password")

\* the label the click listener writes for a state of the dark-mode marker
LabelFor(dark) == IF dark THEN LightLabel ELSE DarkLabel

\* C10 as stated: two consecutive clicks on the theme toggle return the
\* dark-mode marker and the button label to what they were before them,
\* from every reachable state, the initial page included.
C10_AsStated ==
    Len(themeLog) = 2 => <<darkMode, label>> = themeLog[1]

\* C10 as amended: two consecutive clicks return the dark-mode marker to
\* what it was; they return the label to what it was exactly when the label
\* before them was the one the listener writes for that marker state, which
\* is so in every state reached by a click, and on the initial page only
\* if the markup's label is that text.
C10_InvolutionOnWrittenLabels ==
    Len(themeLog) = 2 =>
        /\ darkMode = themeLog[1][1]
        /\ (label = themeLog[1][2]) <=> (themeLog[1][2] = LabelFor(themeLog[1][1]))
        /\ themeLog[2][2] = LabelFor(themeLog[2][1])

\* two clicks from dark mode, a state only a click reaches, are back in dark
\* mode with the label they started from
C10_Witness ==
    /\ Len(themeLog) = 2
    /\ themeLog[1] = <<TRUE, LightLabel>>
    /\ <<darkMode, label>> = themeLog[1]

\* C11: once the theme toggle has been clicked, the label names the opposite
\* mode: it is 'Switch to Light Mode' exactly when the dark-mode marker is
\* present and 'Switch to Dark Mode' exactly when it is absent; and the last
\* click flipped the marker.
C11_LabelNamesOppositeMode ==
    Len(themeLog) >= 1 =>
        /\ (label = "Switch to Light Mode") <=> darkMode
        /\ (label = "Switch to Dark Mode") <=> ~darkMode
        /\ darkMode = ~themeLog[Len(themeLog)][1]

\* one click on a page whose button was labelled otherwise by the markup
C11_Witness ==
    /\ themeLog = << <<FALSE, "Toggle Theme">> >>
    /\ darkMode
    /\ label = "Switch to Light Mode"

\* C12: a click on one FAQ question leaves every other pair's 'show' and
\* 'active' markers unchanged.
C12_FaqIndependence ==
    [][\A a \in FaqIds : \A b \in FaqIds \ {a} :
          clicks'[a] # clicks[a] =>
              show'[b] = show[b] /\ active'[b] = active[b]]_vars

\* no exclusivity: every pair is open at the same time
C12_Witness ==
    /\ ev.target = "faq-question"
    /\ \A q \in FaqIds : show[q] /\ active[q] /\ clicks[q] = 1

\* C15: from a page where no FAQ element carries a marker, each question
\* carries 'active' if and only if its answer carries 'show', and a pair is
\* open exactly when its question has been clicked an odd number of times.
C15_FaqMarkersAgree ==
    \A q \in FaqIds :
        /\ active[q] <=> show[q]
        /\ show[q] <=> (clicks[q] % 2 = 1)

\* one pair closed again by a second click, another open after one click
C15_Witness ==
    /\ clicks[1] = 2 /\ ~show[1] /\ ~active[1]
    /\ clicks[2] = 1 /\ show[2] /\ active[2]

\* C13: the validation pass is idempotent: run on the document a first pass
\* left, with the input values unchanged, a second pass leaves the same error
\* messages, the same markers and the same empty success message, and
\* returns the same result.
C13_PassIdempotent ==
    LET first == validateForm(Dom)
        second == validateForm(first.dom)
    IN  /\ first.dom.value = value
        /\ second.dom.value = value
        /\ second.dom.errorText = first.dom.errorText
        /\ second.dom.invalid = first.dom.invalid
        /\ first.dom.successMessage = ""
        /\ second.dom.successMessage = ""
        /\ second.isValid = first.isValid

\* a blocked submit on a form showing exactly the errors the pass sets again:
\* the state a second submit in succession leaves
C13_Witness ==
    /\ IsSubmit(ev)
    /\ shownBefore = errorText
    /\ errorText["name"] = NameErrorText
    /\ errorText["password"] = ""
    /\ value["password"] # <<>>
    /\ successMessage = ""

\* the name and password values as the length rules see them
NameTrimmedLen == Len(trim(value["name"]))
PasswordRawLen == Len(value["password"])
OnlyWhitespace(s) == \A i \in 1..Len(s) : s[i] \in Whitespace
BlockedSubmit == IsSubmit(ev) /\ successMessage = ""
KeyupIn(f) == IsKeyup(ev) /\ ev.target = f

\* C14: the length rules are exact at their thresholds, after a blocked
\* submit and after a keyup alike: a name of trimmed length 2 fails and one
\* of trimmed length 3 passes, a name of whitespace only fails whatever its
\* raw length; a password of raw length 7 fails and one of raw length 8
\* passes, whitespace counted.
C14_ExactThresholds ==
    /\ BlockedSubmit =>
          /\ NameTrimmedLen = 2 => errorText["name"] = NameErrorText
          /\ NameTrimmedLen = 3 => NoErrorShown("name")
          /\ OnlyWhitespace(value["name"]) => errorText["name"] = NameErrorText
          /\ PasswordRawLen = 7 => errorText["password"] = PasswordErrorText
          /\ PasswordRawLen = 8 => NoErrorShown("password")
    /\ KeyupIn("name") =>
          /\ NameTrimmedLen = 2 => errorText["name"] = shownBefore["name"]
          /\ NameTrimmedLen = 3 => NoErrorShown("name")
          /\ OnlyWhitespace(value["name"]) =>
                errorText["name"] = shownBefore["name"]
    /\ KeyupIn("password") =>
          /\ PasswordRawLen = 7 =>
                errorText["password"] = shownBefore["password"]
          /\ PasswordRawLen = 8 => NoErrorShown("password")

\* a blocked submit of a name of raw length 3 or more that is whitespace
\* only, with a password that reaches length 8 only by its trailing spaces
C14_Witness ==
    /\ BlockedSubmit
    /\ value["name"] # <<>> /\ OnlyWhitespace(value["name"])
    /\ Len(value["name"]) >= 3
    /\ errorText["name"] = NameErrorText
    /\ PasswordRawLen = 8 /\ Len(trim(value["password"])) < 8
    /\ NoErrorShown("password")

\* C16: a non-empty success message implies that no field shows an error or
\* marker; the success message changes only in a submit step, so it stays
\* displayed through keyups and edits until the next submit.
C16_SuccessExcludesErrors ==
    [][/\ successMessage' # "" => \A f \in Fields : errorText'[f] = "" /\ ~invalid'[f]
       /\ successMessage' # successMessage => IsSubmit(ev')]_vars

\* the success text still displayed after an edit of the name and a keyup
C16_Witness ==
    /\ KeyupIn("name")
    /\ value["name"] = Letters(3)
    /\ successMessage = SuccessText
    /\ \A f \in Fields : NoErrorShown(f)

\* C17: a submit right after an accepted submit, with nothing in between,
\* is blocked: it finds the four values empty, clears the success message,
\* shows the name, e-mail and password errors and no confirm-password error.
C17_SecondSubmitBlocked ==
    [][(JustAccepted /\ IsSubmit(ev')) =>
          /\ value = EmptyValues /\ value' = EmptyValues
          /\ successMessage' = ""
          /\ errorText'["name"] = NameErrorText
          /\ errorText'["email"] = EmailErrorText
          /\ errorText'["password"] = PasswordErrorText
          /\ errorText'["confirm-password"] = ""
          /\ ~invalid'["confirm-password"]]_vars

\* the state the second of two submits in succession leaves, the first one
\* having been accepted
C17_Witness ==
    /\ IsSubmit(ev)
    /\ followsAccepted
    /\ successMessage = ""
    /\ errorText["name"] # "" /\ errorText["email"] # ""
    /\ errorText["password"] # ""
    /\ NoErrorShown("confirm-password")

\* the condition under which validateForm sets the error of field f
PassSetsError(f) ==
    CASE f = "name" -> nameFails(Dom)
      [] f = "email" -> emailFails(Dom)
      [] f = "password" -> passwordFails(Dom)
      [] f = "confirm-password" -> confirmFails(Dom)

\* C18: for each field and all input values, the keyup listener's clearing
\* condition is the negation of the condition under which the validation
\* pass sets the field's error; so an error a keyup clears is not set again
\* by a validation pass on the same values.
C18_KeyupAgreesWithPass ==
    \A f \in Fields :
        /\ keyupPasses(Dom, f) <=> ~PassSetsError(f)
        /\ keyupListener(displayError(Dom, f, ErrorTextOf(f)), f).errorText[f] = ""
              => validateForm(Dom).dom.errorText[f] = ""

\* a keyup in the e-mail field cleared the error of an address that is
\* valid only once trimmed
C18_Witness ==
    /\ KeyupIn("email")
    /\ value["email"] # trim(value["email"])
    /\ shownBefore["email"] = EmailErrorText
    /\ NoErrorShown("email")

====
